---- MODULE Spec2Model ----
(***************************************************************************)
(* redcaplib.core: the HTTP POST helper _htpost with its manual retry on   *)
(* connection-establishment failure, the user / privilege resolver built   *)
(* on it, and the record and attachment operations built on both.          *)
(*                                                                         *)
(* One call of an operation is in progress at a time (the library is       *)
(* synchronous).  Each call of requests.post is one step; the remote side  *)
(* chooses its outcome: a connection-establishment failure, a read timeout *)
(* after the request was sent, or a response.  Everything the code does    *)
(* between two calls of requests.post is part of the step that precedes it.*)
(***************************************************************************)
EXTENDS Integers, Sequences, FiniteSets, TLC

VARIABLES
    pc,             \* "idle" | "users" (in _get_all_users' _htpost) | "main" | "done"
    op,             \* the operation being called
    redcap_spec,    \* the Connection Spec argument
    args,           \* the other arguments of the operation
    post_data,      \* post_data of the _htpost call in progress
    files_data,     \* files_data of the _htpost call in progress
    desired_status, \* desired_status of the _htpost call in progress
    call,           \* attempts_left and output the outermost _htpost frame was called with
    attempts_left,  \* attempts_left of the innermost _htpost frame
    output,         \* output of the innermost _htpost frame
    depth,          \* number of _htpost frames below the innermost one
    posts,          \* the calls of requests.post made during this operation call
    lastResp,       \* the response the _htpost call in progress received (NoResp: none)
    user_rcd,       \* the entry _get_user returned to _token_has_full_data_export_privs
    result          \* what the operation returned or raised

vars == <<pc, op, redcap_spec, args, post_data, files_data, desired_status, call,
          attempts_left, output, depth, posts, lastResp, user_rcd, result>>

-----------------------------------------------------------------------------
(* Bounds of the model. *)

MaxAttempts == 3        \* attempts_left passed to _htpost directly: 0 .. MaxAttempts
MaxUsers == 2           \* entries in a user-list response
MaxRows == 2            \* rows in a record-export response
RecursionLimit == 6     \* frames the interpreter allows before "maximum recursion depth exceeded"

(* Program constants. *)

DefaultAttempts == 3    \* attempts_left=3
OK200 == 200            \* desired_status=200 in every operation

-----------------------------------------------------------------------------
(* Python values.  Every value carries its type in field t. *)

None == [t |-> "None"]
PyInt(n) == [t |-> "int", n |-> n]
PyBool(b) == [t |-> "bool", b |-> b]
PyNumStr(n) == [t |-> "str", numeric |-> TRUE, n |-> n]      \* the decimal text of n
PyWord == [t |-> "str", numeric |-> FALSE, n |-> 0]          \* a text that is no number
PyList(items) == [t |-> "list", items |-> items]
PyDict(m) == [t |-> "dict", m |-> m]

Return(v) == [kind |-> "return", val |-> v, err |-> "", who |-> ""]
Raise(e) == [kind |-> "raise", val |-> None, err |-> e, who |-> ""]
RaiseWho(e, w) == [kind |-> "raise", val |-> None, err |-> e, who |-> w]
Pending == [kind |-> "pending", val |-> None, err |-> "", who |-> ""]

SeqsUpTo(S, n) == UNION {[1..k -> S] : k \in 0..n}

(* int(x) *)
PyIntOf(v) ==
    IF v.t = "int" THEN Return(PyInt(v.n))
    ELSE IF v.t = "str" THEN (IF v.numeric THEN Return(PyInt(v.n)) ELSE Raise("ValueError"))
    ELSE Raise("TypeError")

(* unicode(x) *)
Unicode(v) == IF v.t = "int" THEN PyNumStr(v.n) ELSE v

(* ','.join(fields) *)
RECURSIVE JoinComma(_)
JoinComma(fields) ==
    IF Len(fields) = 0 THEN <<>>
    ELSE IF Len(fields) = 1 THEN <<fields[1]>>
    ELSE <<fields[1], ",">> \o JoinComma(Tail(fields))

(* Response bodies: the text the server sent. *)
BodyNull == [b |-> "null"]                       \* the text  null
BodyEmpty == [b |-> "empty"]                     \* the empty text
BodyCsv == [b |-> "csv"]                         \* file bytes, no JSON
BodyNum(n) == [b |-> "num", n |-> n]             \* the text of a number
BodyArray(items) == [b |-> "array", items |-> items]

(* json.loads(result.text) *)
JsonLoads(body) ==
    CASE body.b = "null" -> Return(None)
      [] body.b = "num" -> Return(PyInt(body.n))
      [] body.b = "array" -> Return(PyList(body.items))
      [] OTHER -> Raise("ValueError")

(* json.dumps(x) of a list *)
JsonDumps(items) == BodyArray(items)

-----------------------------------------------------------------------------
(* The Connection Spec.  A URL is the sequence of its characters. *)

UrlHttps  == <<"h","t","t","p","s",":","/","/","r","c">>
UrlHttp   == <<"h","t","t","p",":","/","/","r","c">>
UrlHttpsx == <<"h","t","t","p","s","x",":","/","/","r","c">>
UrlUpper  == <<"H","T","T","P","S",":","/","/","r","c">>
UrlFtp    == <<"f","t","p",":","/","/","r","c">>
UrlNone   == <<>>
Urls == {UrlHttps, UrlHttp, UrlHttpsx, UrlUpper, UrlFtp, UrlNone}

Usernames == {"alice", "bob"}
Token == "T0KEN"

(* str.startswith *)
StartsWith(s, prefix) ==
    /\ Len(s) >= Len(prefix)
    /\ SubSeq(s, 1, Len(prefix)) = prefix

(* if not url.startswith('https'): raise Exception('Insecure URL. ...') *)
UrlAccepted(url) == StartsWith(url, <<"h","t","t","p","s">>)

(* requests.post performs network I/O only for a URL a connection adapter is
   mounted for (http:// and https://, compared in lower case); for any other
   URL it raises InvalidSchema / MissingSchema without opening a connection. *)
LowerChar(c) ==
    CASE c = "H" -> "h" [] c = "T" -> "t" [] c = "P" -> "p" [] c = "S" -> "s" [] OTHER -> c
LowerUrl(url) == [i \in 1..Len(url) |-> LowerChar(url[i])]
HasAdapter(url) ==
    \/ StartsWith(LowerUrl(url), <<"h","t","t","p","s",":","/","/">>)
    \/ StartsWith(LowerUrl(url), <<"h","t","t","p",":","/","/">>)

-----------------------------------------------------------------------------
(* Responses. *)

Statuses == {200, 500}

(* Values of the Transfer-Encoding header; NoHeader stands for its absence. *)
NoHeader == "<absent>"
TransferEncodings == {NoHeader, "chunked", "identity", "Identity", "gzip", "*"}

(* str.lower on the header values above *)
Lower(s) == IF s = "Identity" THEN "identity" ELSE s

(* headers.get(name, default) *)
HeaderGet(value, default) == IF value = NoHeader THEN default ELSE value

(* A Content-Type value is the sequence of its parts; a part  key="val"
   records whether a space precedes it.  CtNone stands for no Content-Type. *)
CtPart(space, key, val) == [space |-> space, key |-> key, val |-> val]
CtNone == <<>>
CtPlain == <<CtPart(FALSE, "text/plain", "")>>
CtNamed == <<CtPart(FALSE, "text/plain", ""), CtPart(TRUE, "name", "report.csv"),
             CtPart(FALSE, "charset", "UTF-8")>>
CtTight == <<CtPart(FALSE, "text/plain", ""), CtPart(FALSE, "name", "tight.csv")>>
ContentTypes == {CtNone, CtPlain, CtNamed, CtTight}

(* _parse_filename: re.findall(r'(?: name="(.*?)")', Content-Type), first match or '' *)
_parse_filename(ctype) ==
    LET hits == {i \in 1..Len(ctype) : ctype[i].space /\ ctype[i].key = "name"}
    IN  IF hits = {} THEN ""
        ELSE ctype[CHOOSE i \in hits : \A j \in hits : i <= j].val

(* Mutant: the length is verified unless the response is chunked or identity. *)
LengthIsVerifiedUnlessDeclared(te) ==
    Lower(HeaderGet(te, "")) \notin {"chunked", "identity"}

(* The condition under which _htpost calls ks.verify_response_content_length. *)
LengthIsVerified(te) ==
    \/ HeaderGet(te, "*") = "*"
    \/ Lower(HeaderGet(te, "")) = "identity"

(* The body of the try block of _htpost once requests.post has returned resp:
   resp.lengthOk is what ks.verify_response_content_length(resp) returns. *)
HtpostResponse(resp, desired, out) ==
    IF LengthIsVerified(resp.te) /\ ~resp.lengthOk
    THEN Raise("IncompleteRead")
    ELSE IF resp.status = desired
         THEN IF out = "raw"
              THEN Return(PyDict([filename |-> _parse_filename(resp.ctype),
                                  data |-> resp.body]))
              ELSE JsonLoads(resp.body)
         ELSE Raise("HTTPStatus")

(* What the outermost frame of _htpost hands to its caller when the innermost
   frame, d frames deeper, ends with inner: an exception propagates through the
   except blocks unchanged; the value of the recursive call is dropped and the
   frames above fall off the end of the function. *)
Unwind(d, inner) ==
    IF inner.kind = "raise" THEN inner
    ELSE IF d = 0 THEN inner
    ELSE Return(None)

-----------------------------------------------------------------------------
(* What the server can answer. *)

(* Values the data_export key of a user entry can carry on the wire. *)
DataExportValues == {PyInt(0), PyInt(1), PyInt(2), PyNumStr(1), PyWord, None}

UserEntry(name, de) == ("username" :> name @@ "data_export" :> de)
UserEntryBare(name) == ("username" :> name)     \* an entry without data_export
UserEntries ==
    {UserEntry("alice", de) : de \in DataExportValues}
        \cup {UserEntryBare("alice"), UserEntry("bob", PyInt(1)), UserEntry("carol", PyInt(0))}

(* The user list of a project: no two entries share a username. *)
UserLists ==
    {l \in SeqsUpTo(UserEntries, MaxUsers) :
        \A i, j \in 1..Len(l) : i # j => l[i]["username"] # l[j]["username"]}

RecordRows == {("record_id" :> PyNumStr(3)), ("record_id" :> PyInt(7)),
               ("record_id" :> PyWord), ("redcap_repeat_instance" :> PyInt(1))}

UserBodies == {BodyNull, BodyEmpty} \cup {BodyArray(l) : l \in UserLists}
RecordBodies ==
    {BodyNull, BodyEmpty, BodyNum(1)} \cup {BodyArray(l) : l \in SeqsUpTo(RecordRows, MaxRows)}
ImportBodies == {BodyEmpty, BodyNum(1), BodyArray(<<PyNumStr(3)>>)}
FileBodies == {BodyEmpty, BodyCsv}
OtherBodies == {BodyNull, BodyEmpty, BodyNum(1), BodyArray(<<>>)}

(* The bodies a request can be answered with depend on what it asks for;
   a name="..." parameter of Content-Type comes with file responses. *)
BodiesFor(post) ==
    CASE post["content"] = "user" -> UserBodies
      [] post["content"] = "file" -> FileBodies
      [] post["content"] = "record" /\ "data" \in DOMAIN post -> ImportBodies
      [] post["content"] = "record" /\ "action" \in DOMAIN post -> ImportBodies
      [] post["content"] = "record" -> RecordBodies
      [] OTHER -> OtherBodies
ContentTypesFor(post) == IF post["content"] = "file" THEN ContentTypes ELSE {CtPlain}

Responses(post) ==
    [status : Statuses, te : TransferEncodings, lengthOk : BOOLEAN,
     ctype : ContentTypesFor(post), body : BodiesFor(post)]

NoResp == [status |-> 0, te |-> NoHeader, lengthOk |-> TRUE, ctype |-> CtNone, body |-> BodyEmpty]

-----------------------------------------------------------------------------
(* The operations and their arguments. *)

ExportOps == {"get_full_record", "get_all_full_records", "get_all_partial_records",
              "get_max_record_id"}
DirectOps == {"bulk_import_records", "delete_record", "get_attachment", "attach_as_csv",
              "update_field"}
PublicOps == ExportOps \cup DirectOps
ResolverOps == {"_get_all_users", "_get_user", "_token_has_full_data_export_privs"}
Ops == PublicOps \cup ResolverOps \cup {"_htpost"}

RecordIds == {PyInt(5), PyNumStr(7)}
FieldLists == {<<"record_id">>, <<"age", "sex">>}

ArgSets(o) ==
    [record_id : IF o \in {"get_full_record", "delete_record", "get_attachment",
                          "attach_as_csv", "update_field"}
                 THEN RecordIds ELSE {None},
     fields : IF o = "get_all_partial_records" THEN FieldLists ELSE {<<>>},
     username : IF o = "_get_user" THEN Usernames ELSE {""},
     attempts_left : IF o = "_htpost" THEN 0..MaxAttempts ELSE {DefaultAttempts},
     output : IF o = "_htpost" THEN {"json", "raw"} ELSE {""},
     files : IF o = "_htpost" THEN BOOLEAN ELSE {FALSE},
     desired_status : IF o = "_htpost" THEN Statuses ELSE {OK200}]

(* The files_data of attach_as_csv: ks.seq_of_maps_into_csv_data is external. *)
NoFiles == <<>>
CsvFiles == <<"file", "out.csv", BodyCsv, "text/plain">>

(* DataExportAccess = ks.enum('NO_ACCESS', 'FULL_DATA_SET', 'DE-IDENTIFIED') *)
DataExportAccess == <<"NO_ACCESS", "FULL_DATA_SET", "DE-IDENTIFIED">>
EnumOrdinal(enum, name) == (CHOOSE i \in 1..Len(enum) : enum[i] = name) - 1
FULL_DATA_SET == EnumOrdinal(DataExportAccess, "FULL_DATA_SET")

(* post_data of _get_all_users *)
UsersPost(spec) ==
    ("token" :> spec.token @@ "content" :> "user" @@ "format" :> "json" @@ "type" :> "flat")

(* post_data of the three record-export operations *)
ExportBase(spec) ==
    ("token" :> spec.token @@ "content" :> "record" @@ "format" :> "json" @@ "type" :> "flat")
FullRecordPost(spec, a) == ExportBase(spec) @@ ("records" :> Unicode(a.record_id))
AllFullRecordsPost(spec) == ExportBase(spec)
PartialRecordsPost(spec, fields) == ExportBase(spec) @@ ("fields" :> JoinComma(fields))

(* post_data of bulk_import_records and update_field *)
ImportBase(spec) ==
    ("token" :> spec.token @@ "content" :> "record" @@ "format" :> "json" @@ "type" :> "flat"
     @@ "overwriteBehavior" :> "normal" @@ "forceAutoNumber" :> "false"
     @@ "returnContent" :> "ids" @@ "returnFormat" :> "json")
SampleRecords == <<("record_id" :> PyNumStr(3) @@ "age" :> PyNumStr(40))>>
BulkImportPost(spec) == ImportBase(spec) @@ ("data" :> JsonDumps(SampleRecords))
UpdateFieldPost(spec, a) ==
    ImportBase(spec)
        @@ ("data" :> JsonDumps(<<("record_id" :> Unicode(a.record_id) @@ "status" :> "done")>>))

DeletePost(spec, a) ==
    ("token" :> spec.token @@ "content" :> "record" @@ "action" :> "delete"
     @@ "records[0]" :> Unicode(a.record_id))
AttachmentPost(spec, a) ==
    ("token" :> spec.token @@ "content" :> "file" @@ "action" :> "export"
     @@ "record" :> Unicode(a.record_id) @@ "field" :> "consent")
AttachCsvPost(spec, a) ==
    ("token" :> spec.token @@ "content" :> "file" @@ "action" :> "import"
     @@ "record" :> Unicode(a.record_id) @@ "field" :> "consent")
RawPost(spec) == ("token" :> spec.token @@ "content" :> "version")

(* The _htpost call an operation makes for its own request: post_data, output,
   files_data.  get_max_record_id goes through get_all_partial_records with
   [field_name_for_record_id]. *)
MainPost(o, spec, a) ==
    CASE o = "get_full_record" -> FullRecordPost(spec, a)
      [] o = "get_all_full_records" -> AllFullRecordsPost(spec)
      [] o = "get_all_partial_records" -> PartialRecordsPost(spec, a.fields)
      [] o = "get_max_record_id" -> PartialRecordsPost(spec, <<"record_id">>)
      [] o = "bulk_import_records" -> BulkImportPost(spec)
      [] o = "delete_record" -> DeletePost(spec, a)
      [] o = "get_attachment" -> AttachmentPost(spec, a)
      [] o = "attach_as_csv" -> AttachCsvPost(spec, a)
      [] o = "update_field" -> UpdateFieldPost(spec, a)
      [] OTHER -> RawPost(spec)
MainOutput(o, a) ==
    CASE o \in {"get_attachment", "attach_as_csv", "update_field"} -> "raw"
      [] o = "_htpost" -> a.output
      [] OTHER -> "json"
MainFiles(o, a) ==
    IF o = "attach_as_csv" \/ (o = "_htpost" /\ a.files) THEN CsvFiles ELSE NoFiles

-----------------------------------------------------------------------------
(* The user / privilege resolver, as functions of what _htpost handed back. *)

(* _get_all_users, given what its _htpost call handed back *)
_get_all_users(o) ==
    IF o.kind = "raise" THEN o
    ELSE IF o.val = None THEN Raise("EmptyResult")
    ELSE o

(* _get_user: the first entry whose username matches, else LookupError *)
_get_user(o, username) ==
    LET users == _get_all_users(o)
        items == users.val.items
        hits == {i \in 1..Len(items) : items[i]["username"] = username}
    IN  IF users.kind = "raise" THEN users
        ELSE IF hits = {} THEN RaiseWho("LookupError", username)
        ELSE Return(PyDict(items[CHOOSE i \in hits : \A j \in hits : i <= j]))

(* Mutant: any level from FULL_DATA_SET upwards passes. *)
HasFullExportAtLeast(user) ==
    LET de == IF "data_export" \in DOMAIN user THEN user["data_export"] ELSE PyInt(-1)
        n == PyIntOf(de)
    IN  IF n.kind = "raise" THEN n ELSE Return(PyBool(n.val.n >= FULL_DATA_SET))

(* int(user_rcd.get('data_export', -1)) == DataExportAccess.FULL_DATA_SET *)
HasFullExport(user) ==
    LET de == IF "data_export" \in DOMAIN user THEN user["data_export"] ELSE PyInt(-1)
        n == PyIntOf(de)
    IN  IF n.kind = "raise" THEN n ELSE Return(PyBool(n.val.n = FULL_DATA_SET))

(* _token_has_full_data_export_privs *)
_token_has_full_data_export_privs(o, spec) ==
    LET user == _get_user(o, spec.username)
    IN  IF user.kind = "raise" THEN user ELSE HasFullExport(user.val.m)

(* get_max_record_id on what get_all_partial_records returned:
   max(map(lambda mp: int(mp[field]), rows)) *)
get_max_record_id(o) ==
    LET rows == o.val.items
        IdOf(i) == IF "record_id" \in DOMAIN rows[i]
                   THEN PyIntOf(rows[i]["record_id"]) ELSE Raise("KeyError")
        bad == {i \in 1..Len(rows) : IdOf(i).kind = "raise"}
        ids == {IdOf(i).val.n : i \in 1..Len(rows)}
    IN  IF o.kind = "raise" THEN o
        ELSE IF o.val.t # "list" THEN Raise("TypeError")
        ELSE IF bad # {} THEN IdOf(CHOOSE i \in bad : \A j \in bad : i <= j)
        ELSE IF ids = {} THEN Raise("ValueError")
        ELSE Return(PyInt(CHOOSE m \in ids : \A n \in ids : n <= m))

-----------------------------------------------------------------------------
(* _htpost *)

(* What requests.post can raise. *)
Exceptions == {"ConnectionError", "ConnectTimeout", "NewConnectionError", "ReadTimeout"}

(* except (ConnectionError, ConnectTimeout, NewConnectionError) *)
Caught(e) == e \in {"ConnectionError", "ConnectTimeout", "NewConnectionError"}

(* How far the request had got when requests.post raised e.  ConnectTimeout
   and NewConnectionError mean no connection was established; ReadTimeout means
   the request was sent and no response came in time; ConnectionError is raised
   for a connection that could not be established and also for one that was
   dropped after the request had been sent ('Connection aborted'). *)
OutcomesOf(e) ==
    CASE e = "ReadTimeout" -> {"read-timeout"}
      [] e = "ConnectionError" -> {"connect-failure", "aborted"}
      [] OTHER -> {"connect-failure"}

(* Mutants: the counter is compared one too early, one too late. *)
ExhaustedEarly(n) == n <= 1
ExhaustedLate(n) == n < 0

(* if attempts_left == 0: raise ... (after attempts_left -= 1) *)
Exhausted(n) == n = 0

(* The output the recursive call runs with: the call does not pass output on. *)
RetryOutput(out) == "json"

Post(data, outcome) == [data |-> data, outcome |-> outcome]

(* The operation ends with o. *)
Finish(o, left, user, resp) ==
    /\ pc' = "done"
    /\ result' = o
    /\ attempts_left' = left
    /\ user_rcd' = user
    /\ lastResp' = resp
    /\ UNCHANGED <<post_data, files_data, desired_status, call, output, depth>>

(* Entering the outermost frame of an _htpost call: the URL check. *)
HtpostEnter(stage, url, post, files, desired, c, user) ==
    /\ post_data' = post
    /\ files_data' = files
    /\ desired_status' = desired
    /\ call' = c
    /\ attempts_left' = c.attempts_left
    /\ output' = c.output
    /\ depth' = 0
    /\ user_rcd' = user
    /\ lastResp' = NoResp
    /\ IF UrlAccepted(url)
       THEN pc' = stage /\ result' = Pending
       ELSE pc' = "done" /\ result' = Raise("InsecureURL")

DefaultCall == [attempts_left |-> DefaultAttempts, output |-> "json"]

(* What the operation does once the outermost frame of its _htpost call has
   ended with top, the innermost frame's counter standing at left. *)
Continue(top, left, resp) ==
    IF pc = "main"
    THEN Finish(IF op = "get_max_record_id" THEN get_max_record_id(top) ELSE top, left, user_rcd, resp)
    ELSE LET found == _get_user(top, redcap_spec.username)
             user == IF found.kind = "return" THEN found.val ELSE None
             priv == _token_has_full_data_export_privs(top, redcap_spec)
         IN  CASE op = "_get_all_users" -> Finish(_get_all_users(top), left, None, resp)
               [] op = "_get_user" -> Finish(_get_user(top, args.username), left, None, resp)
               [] op = "_token_has_full_data_export_privs" -> Finish(priv, left, user, resp)
               [] OTHER ->
                    IF priv.kind = "raise" THEN Finish(priv, left, user, resp)
                    ELSE IF ~priv.val.b
                    THEN Finish(RaiseWho("NoFullExport", redcap_spec.username), left, user, resp)
                    ELSE HtpostEnter("main", redcap_spec.url,
                                     MainPost(op, redcap_spec, args), NoFiles, OK200,
                                     DefaultCall, user)

-----------------------------------------------------------------------------
(* The steps. *)

Init ==
    /\ pc = "idle"
    /\ op = ""
    /\ redcap_spec = [url |-> UrlNone, token |-> Token, username |-> ""]
    /\ args = [record_id |-> None, fields |-> <<>>, username |-> "", attempts_left |-> 0,
               output |-> "", files |-> FALSE, desired_status |-> 0]
    /\ post_data = <<>>
    /\ files_data = NoFiles
    /\ desired_status = 0
    /\ call = [attempts_left |-> 0, output |-> ""]
    /\ attempts_left = 0
    /\ output = ""
    /\ depth = 0
    /\ posts = <<>>
    /\ lastResp = NoResp
    /\ user_rcd = None
    /\ result = Pending

(* An operation is called. *)
Call ==
    /\ pc = "idle"
    /\ \E o \in Ops, url \in Urls, name \in Usernames :
        \E a \in ArgSets(o) :
            LET spec == [url |-> url, token |-> Token, username |-> name]
            IN  /\ op' = o
                /\ redcap_spec' = spec
                /\ args' = a
                /\ posts' = <<>>
                /\ IF o \in ExportOps \cup ResolverOps
                   THEN HtpostEnter("users", url, UsersPost(spec), NoFiles, OK200,
                                    DefaultCall, None)
                   ELSE HtpostEnter("main", url, MainPost(o, spec, a), MainFiles(o, a),
                                    a.desired_status,
                                    [attempts_left |-> a.attempts_left,
                                     output |-> MainOutput(o, a)], None)

(* requests.post refuses the URL: no adapter, no network I/O. *)
PostRefusesUrl ==
    /\ pc \in {"users", "main"}
    /\ ~HasAdapter(redcap_spec.url)
    /\ Continue(Raise("InvalidSchema"), attempts_left, lastResp)
    /\ UNCHANGED <<op, redcap_spec, args, posts>>

(* requests.post raises: a caught connection failure is retried by a recursive
   call until the counter reaches zero, anything else propagates. *)
PostRaises ==
    /\ pc \in {"users", "main"}
    /\ HasAdapter(redcap_spec.url)
    /\ \E e \in Exceptions, how \in {"connect-failure", "aborted", "read-timeout"} :
        /\ how \in OutcomesOf(e)
        /\ posts' = Append(posts, Post(post_data, how))
        /\ IF ~Caught(e)
           THEN Continue(Raise(e), attempts_left, lastResp)
           ELSE IF Exhausted(attempts_left - 1)
           THEN Continue(Raise("ConnectionExhausted"), attempts_left - 1, lastResp)
           ELSE IF depth + 2 > RecursionLimit
           THEN Continue(Raise("RuntimeError"), attempts_left - 1, lastResp)
           ELSE /\ attempts_left' = attempts_left - 1
                /\ depth' = depth + 1
                /\ output' = RetryOutput(output)
                /\ UNCHANGED <<pc, post_data, files_data, desired_status, call,
                               user_rcd, result, lastResp>>
    /\ UNCHANGED <<op, redcap_spec, args>>

(* requests.post returns a response. *)
PostReturns ==
    /\ pc \in {"users", "main"}
    /\ HasAdapter(redcap_spec.url)
    /\ \E resp \in Responses(post_data) :
        /\ posts' = Append(posts, Post(post_data, "response"))
        /\ Continue(Unwind(depth, HtpostResponse(resp, desired_status, output)),
                    attempts_left, resp)
    /\ UNCHANGED <<op, redcap_spec, args>>

(* The caller takes the result; the library keeps nothing between calls. *)
Done ==
    /\ pc = "done"
    /\ pc' = "idle"
    /\ op' = ""
    /\ redcap_spec' = [url |-> UrlNone, token |-> Token, username |-> ""]
    /\ args' = [record_id |-> None, fields |-> <<>>, username |-> "", attempts_left |-> 0,
                output |-> "", files |-> FALSE, desired_status |-> 0]
    /\ post_data' = <<>>
    /\ files_data' = NoFiles
    /\ desired_status' = 0
    /\ call' = [attempts_left |-> 0, output |-> ""]
    /\ attempts_left' = 0
    /\ output' = ""
    /\ depth' = 0
    /\ posts' = <<>>
    /\ lastResp' = NoResp
    /\ user_rcd' = None
    /\ result' = Pending

Next == Call \/ PostRefusesUrl \/ PostRaises \/ PostReturns \/ Done

Spec == Init /\ [][Next]_vars

-----------------------------------------------------------------------------
(* Vocabulary of the properties. *)

(* The URL is an HTTPS URL: it begins with https:// *)
IsHttpsUrl(url) == StartsWith(url, <<"h","t","t","p","s",":","/","/">>)

PostsWith(outcome) == {i \in 1..Len(posts) : posts[i].outcome = outcome}
PostsOf(content) == {i \in 1..Len(posts) : posts[i].data["content"] = content}
NoConnectionError == PostsWith("connect-failure") \cup PostsWith("aborted") = {}
OnlyConnectFailures == PostsWith("connect-failure") = 1..Len(posts)

(* The entry carries the export level n, as a JSON number or as its decimal text. *)
DataExportIs(entry, n) ==
    /\ "data_export" \in DOMAIN entry
    /\ entry["data_export"] \in {PyInt(n), PyNumStr(n)}

(* names is joined by commas into joined. *)
IsCommaJoined(joined, names) ==
    /\ Len(joined) = 2 * Len(names) - 1
    /\ \A i \in 1..Len(names) : joined[2 * i - 1] = names[i]
    /\ \A i \in 1..(Len(names) - 1) : joined[2 * i] = ","

(* The text of a record id. *)
IdText(id) == [t |-> "str", numeric |-> TRUE, n |-> id.n]

Max(a, b) == IF a >= b THEN a ELSE b

-----------------------------------------------------------------------------
(* C1: for every Connection Spec whose api-url is not HTTPS, every operation
   fails with the configuration error and sends no HTTP request. *)
C1_NonHttpsIsConfigurationError ==
    (pc = "done" /\ ~IsHttpsUrl(redcap_spec.url))
        => (result = Raise("InsecureURL") /\ posts = <<>>)

(* C2: when every connection attempt fails with a connection-establishment
   failure, an _htpost call started with attempts_left = N >= 1 makes exactly
   N attempts, the counter going down by one with each, and then fails with
   the connection-exhausted error. *)
C2_RetriesExactlyAttemptsLeft ==
    (op # "" /\ OnlyConnectFailures /\ call.attempts_left >= 1)
        => /\ attempts_left = call.attempts_left - Len(posts)
           /\ pc # "done" => Len(posts) < call.attempts_left
           /\ (pc = "done" /\ posts # <<>>)
                => /\ Len(posts) = call.attempts_left
                   /\ result = Raise("ConnectionExhausted")

C2_Witness ==
    /\ pc = "done"
    /\ op = "_htpost"
    /\ call.attempts_left = 2
    /\ Len(posts) = 2
    /\ OnlyConnectFailures
    /\ result = Raise("ConnectionExhausted")

(* C3: a request that ends in a read timeout after it was sent is the last one
   of the call and the read timeout itself reaches the caller, on the first
   attempt and on a retry alike; a mutating operation whose request reached
   the server sends no further request in the same call. *)
C3_ReadTimeoutNotRetried ==
    /\ \A i \in PostsWith("read-timeout") :
        /\ i = Len(posts)
        /\ pc = "done"
        /\ result = Raise("ReadTimeout")
    /\ op \in {"bulk_import_records", "delete_record", "update_field", "attach_as_csv"}
        => \A i \in 1..Len(posts) :
             posts[i].outcome \in {"aborted", "read-timeout", "response"}
                => i = Len(posts)

(* C4: when k < attempts_left connection failures are followed by a response
   with the desired status, the _htpost call returns what it would have
   returned had that response arrived on the first attempt, and the operation
   returns that value. *)
C4_RetryReturnsSameAsFirstAttempt ==
    (/\ pc = "done"
     /\ op \in DirectOps \cup {"_htpost"}
     /\ PostsWith("connect-failure") = 1..(Len(posts) - 1)
     /\ lastResp # NoResp
     /\ lastResp.status = desired_status)
        => result = HtpostResponse(lastResp, desired_status, call.output)

(* C5: in an export operation the privilege check runs first; when it is false
   the operation fails with the authorization error naming spec.username and
   sends no content=record request; a content=record request follows a
   user-list response whose entry for spec.username has data_export = 1, and
   its fields are token, content=record, format=json, type=flat plus
   records=<id> or fields=<comma-joined names>. *)
C5_ExportIsGated ==
    op \in ExportOps =>
        /\ posts # <<>> => posts[1].data["content"] = "user"
        /\ (pc = "main" \/ PostsOf("record") # {}) =>
              /\ \E j \in PostsOf("user") :
                    /\ posts[j].outcome = "response"
                    /\ \A i \in PostsOf("record") : j < i
              /\ user_rcd.t = "dict"
              /\ user_rcd.m["username"] = redcap_spec.username
              /\ DataExportIs(user_rcd.m, 1)
        /\ (pc = "done" /\ user_rcd.t = "dict"
              /\ HasFullExport(user_rcd.m) = Return(PyBool(FALSE)))
              => /\ result = RaiseWho("NoFullExport", redcap_spec.username)
                 /\ PostsOf("record") = {}
        /\ \A i \in PostsOf("record") :
              LET d == posts[i].data
                  extra == DOMAIN d \ {"token", "content", "format", "type"}
              IN  /\ {"token", "content", "format", "type"} \subseteq DOMAIN d
                  /\ d["token"] = redcap_spec.token
                  /\ d["format"] = "json"
                  /\ d["type"] = "flat"
                  /\ CASE op = "get_full_record" ->
                            extra = {"records"} /\ d["records"] = IdText(args.record_id)
                       [] op = "get_all_full_records" -> extra = {}
                       [] op = "get_all_partial_records" ->
                            extra = {"fields"} /\ IsCommaJoined(d["fields"], args.fields)
                       [] OTHER ->
                            extra = {"fields"} /\ d["fields"] = <<"record_id">>

C5_Witness ==
    /\ pc = "done"
    /\ op = "get_all_partial_records"
    /\ args.fields = <<"age", "sex">>
    /\ Len(posts) = 2
    /\ posts[2].data["content"] = "record"
    /\ posts[2].outcome = "response"
    /\ result.kind = "return"

(* C6: token_has_full_export_privs returns true iff the resolved entry's
   data_export equals 1, and returns false, not an error, when data_export is
   0, 2, absent or no integer. *)
C6_PrivilegeIsBoolean ==
    (pc = "done" /\ op = "_token_has_full_data_export_privs" /\ user_rcd.t = "dict")
        => result = Return(PyBool(DataExportIs(user_rcd.m, 1)))

(* C7: every public operation sends exactly one HTTP request per call when no
   connection-establishment failure occurs, and at most attempts_left requests
   when such failures occur. *)
C7_OneRoundTrip ==
    (pc = "done" /\ op \in PublicOps /\ IsHttpsUrl(redcap_spec.url))
        => IF NoConnectionError THEN Len(posts) = 1 ELSE Len(posts) <= DefaultAttempts

(* C7 as amended, for an api-url that begins with https://: an operation
   that is not export-gated sends exactly one request per call when no attempt
   ends in a connection error, and at most attempts_left otherwise; an
   export-gated operation sends the user-list request and then, only when the
   privilege check passes, the record request: exactly one user-list request
   and at most one record request when no attempt ends in a connection error,
   and at most attempts_left of each otherwise. *)
C7_RoundTripsPerTransportCall ==
    (op \in PublicOps /\ IsHttpsUrl(redcap_spec.url)) =>
        IF op \in ExportOps
        THEN /\ Len(posts) = Cardinality(PostsOf("user")) + Cardinality(PostsOf("record"))
             /\ Cardinality(PostsOf("user")) <= DefaultAttempts
             /\ Cardinality(PostsOf("record")) <= DefaultAttempts
             /\ (pc = "done" /\ NoConnectionError) =>
                   /\ Cardinality(PostsOf("user")) = 1
                   /\ Cardinality(PostsOf("record")) <= 1
                   /\ Cardinality(PostsOf("record")) = 1 => user_rcd.t = "dict"
        ELSE /\ Len(posts) <= DefaultAttempts
             /\ (pc = "done" /\ NoConnectionError) => Len(posts) = 1

C7_Witness ==
    /\ pc = "done"
    /\ op = "get_full_record"
    /\ NoConnectionError
    /\ Len(posts) = 2
    /\ result.kind = "return"

(* C8: get_all_users fails with its 'empty result' error whenever the decoded
   result of the content=user request is null or an empty list. *)
C8_EmptyUserListRejected ==
    (/\ pc = "done"
     /\ op = "_get_all_users"
     /\ lastResp # NoResp
     /\ depth = 0
     /\ HtpostResponse(lastResp, OK200, "json") \in {Return(None), Return(PyList(<<>>))})
        => result = Raise("EmptyResult")

(* C9: the body length is verified whenever the response declares neither
   chunked nor identity transfer encoding, and the incomplete-transfer error
   is raised only for such responses. *)
C9_VerifiedUnlessChunkedOrIdentity ==
    (pc = "done" /\ lastResp # NoResp) =>
        LET declared == Lower(lastResp.te) \in {"chunked", "identity"}
        IN  /\ (~declared /\ ~lastResp.lengthOk) => result = Raise("IncompleteRead")
            /\ result = Raise("IncompleteRead") => ~declared

(* C9 as amended: the body length is verified exactly when the response has
   no Transfer-Encoding header (or the header reads '*') or declares identity
   encoding in any letter case; the incomplete-transfer error is raised for
   those responses on a mismatch and for no other response. *)
C9_VerifiedWhenAbsentOrIdentity ==
    (pc = "done" /\ lastResp # NoResp) =>
        (result = Raise("IncompleteRead")
            <=> (/\ lastResp.te \in {NoHeader, "*", "identity", "Identity"}
                 /\ ~lastResp.lengthOk))

C9_Witness ==
    /\ pc = "done"
    /\ lastResp # NoResp
    /\ lastResp.te = "Identity"
    /\ ~lastResp.lengthOk
    /\ result = Raise("IncompleteRead")

(* C10: for every attempts_left >= 0 the _htpost call never makes more than
   max(1, attempts_left) attempts and the counter never becomes negative. *)
C10_AttemptsBounded ==
    op = "_htpost" =>
        /\ attempts_left >= 0
        /\ Len(posts) <= Max(1, call.attempts_left)

====
